---- MODULE Spec2Model ----
(***************************************************************************)
(* A model of dash_app.py: the survey dashboard's three Dash callbacks     *)
(* (update_question_dropdown, update_multi_choice_selector, update_chart), *)
(* the layout's initial control values and the order in which the declared *)
(* Input/Output dependencies let the callbacks run after a control change.  *)
(*                                                                         *)
(* Strings are TLA+ strings handled with Len, SubSeq and \o, so that       *)
(* startswith, endswith, split, replace, sorted and the f-strings are      *)
(* computed character by character as Python computes them.  The en dash   *)
(* of the question labels and bucket names is written "-" here: the module *)
(* is ASCII, and no code path looks at that character.                     *)
(***************************************************************************)
EXTENDS Integers, Sequences, FiniteSets, TLC

(***************************************************************************)
(* Python values                                                           *)
(***************************************************************************)
\* Python's None, kept apart from every string the program handles.
None == "<None>"

\* bool(v) of a value that is None or a str.
Truthy(v) == v # None /\ v # ""

\* The characters the program's strings are made of, in code point order.
Alphabet == " %()+,-./0123456789ABCDEFGHIJKLMNOPQRSTUVWXYZ_abcdefghijklmnopqrstuvwxyz|"

CharAt(s, i) == SubSeq(s, i, i)

\* Rank of a character in code point order (what str comparison looks at).
Ord(c) == CHOOSE i \in 1..Len(Alphabet) : CharAt(Alphabet, i) = c

\* a < b on str: the first differing character decides, a proper prefix is smaller.
StrLess(a, b) ==
    \E i \in 1..Len(b) :
        /\ i <= Len(a) + 1
        /\ SubSeq(a, 1, i - 1) = SubSeq(b, 1, i - 1)
        /\ \/ i = Len(a) + 1
           \/ Ord(CharAt(a, i)) < Ord(CharAt(b, i))

\* s.startswith(p)
startswith(s, p) == Len(p) <= Len(s) /\ SubSeq(s, 1, Len(p)) = p

\* s.endswith(p)
endswith(s, p) == Len(p) <= Len(s) /\ SubSeq(s, Len(s) - Len(p) + 1, Len(s)) = p

\* s.split(sep) for a one-character sep: the parts between the separators, the
\* k-th part lying between the (k-1)-th and the k-th separator.
split(s, sep) ==
    LET at == { i \in 1..Len(s) : CharAt(s, i) = sep }
        n  == Cardinality(at)
        pos(k) == IF k = 0 THEN 0
                  ELSE IF k = n + 1 THEN Len(s) + 1
                  ELSE CHOOSE p \in at : Cardinality({ q \in at : q < p }) = k - 1
    IN  [k \in 1..(n + 1) |-> SubSeq(s, pos(k - 1) + 1, pos(k) - 1)]

\* s.replace(old, ""): every non-overlapping occurrence of old, left to right, removed.
RECURSIVE RemoveAll(_, _)
RemoveAll(s, old) ==
    LET found == { i \in 1..(Len(s) - Len(old) + 1) : SubSeq(s, i, i + Len(old) - 1) = old }
    IN  IF old = "" \/ found = {} THEN s
        ELSE LET first == CHOOSE i \in found : \A j \in found : i <= j
             IN  SubSeq(s, 1, first - 1)
                    \o RemoveAll(SubSeq(s, first + Len(old), Len(s)), old)

\* sorted(S) of a set of str: ascending, one entry per element.
RECURSIVE sorted(_)
sorted(S) ==
    IF S = {} THEN << >>
    ELSE LET m == CHOOSE x \in S : \A y \in S \ {x} : StrLess(x, y)
         IN  << m >> \o sorted(S \ {m})

Range(seq) == { seq[i] : i \in 1..Len(seq) }

(***************************************************************************)
(* Module-level catalogs                                                   *)
(***************************************************************************)
Q(l, v) == [label |-> l, value |-> v]

\* questions: label -> field identifier, in declaration (= dict iteration) order.
questions == <<
    Q("Q11 - Policy change since pandemic", "11_Response"),
    Q("Q12 - Likelihood of return-to-office", "12_Response"),
    Q("Q13 - Proportion working remotely", "13_Response"),
    Q("Q14 - Frequency of WFH", "14_Response"),
    Q("Q15 - Roles in organization - multi-select", "15_"),
    Q("Q16 - Benefits of WFH - multi-select", "16_"),
    Q("Q17 - Difficulties in Management - multi-select", "17_"),
    Q("Q18 - Impact: Productivity", "18_Productivity"),
    Q("Q18 - Impact: Innovation", "18_Innovation"),
    Q("Q18 - Impact: Staff recruitment and retention", "18_Staff recruitment and retention"),
    Q("Q18 - Impact: Staff wellbeing", "18_Staff wellbeing"),
    Q("Q18 - Impact: Training and career development", "18_Training and career development"),
    Q("Q18 - Impact: Team collaboration", "18_Team collaboration"),
    Q("Q18 - Impact: Overall business growth", "18_Overall business growth"),
    Q("Q19 - Idea development and collaboration", "19_Idea development and collaboration (e.g. brainstorming, informal knowledge sharing)"),
    Q("Q19 - Speed and implementation of innovation", "19_Speed and implementation of innovation (e.g. introduction of new products or services)"),
    Q("Q19 - Adoption of new technologies/tools", "19_Adoption of new technologies or tools"),
    Q("Q19 - Access to external collaborators", "19_Access to external collaborators (e.g. partners, clients)"),
    Q("Q19 - Access to new talent/skills", "19_Access to new talent or innovation-related skills"),
    Q("Q19 - Other (please select/specify)", "19_Other (please select and specify below)"),
    Q("Q19 - Other (please specify)", "19_Other (please specify)"),
    Q("Q20 - Barriers to scaling - multi-select", "20_"),
    Q("Q21 - Technologies of enablement - multi-select", "21_"),
    Q("Q23 - Barriers to scaling - multi-select", "23_"),
    Q("Q24 - Adoption of AI impact on remote work - multi-select", "24_"),
    Q("Q25 - Reasons for non-adoption - multi-select", "25_") >>

\* disagg_options: label -> disaggregation identifier.
disagg_options == <<
    Q("Years since business incorporated", "2_Response"),
    Q("Sector", "3_Response"),
    Q("Workforce size (Q7 buckets)", "7_Response_Bucket") >>

bucket_order == << "Micro (1-9)", "Small (10-49)", "Medium (50-249)", "Large (250+)" >>

\* The two values of the q8_filter radio items.
YesFilter == "Yes (currently or at some point in time)"
NoFilter == "No, never"
q8_options == << Q(YesFilter, YesFilter), Q(NoFilter, NoFilter) >>

\* [o["value"] for o in opts]
Values(opts) == [i \in 1..Len(opts) |-> opts[i].value]

\* x in seq
In(x, seq) == \E i \in 1..Len(seq) : seq[i] = x

(***************************************************************************)
(* The aggregate store (aggregates.json)                                   *)
(*                                                                         *)
(* A store maps "filter|field|disagg" keys to a list of rows.  A row is a  *)
(* dict: the disaggregation column, for a single-select question the       *)
(* question's own column, Count (an int) and Percent.  Percent is a float; *)
(* the model holds it as the integer number of eighths of a percent (192   *)
(* is 24.0, 267 is 33.375), values a float holds exactly, so that          *)
(* formatting to one decimal is computed on the exact value.  A row may    *)
(* lack a key: the data frame made of the rows then holds NaN in its cell. *)
(***************************************************************************)
Key(f, field, d) == f \o "|" \o field \o "|" \o d

\* A row of a single-select aggregate and a row of a sub-choice aggregate.
Row(dcol, cat, qcol, level, count, pct8) ==
    (dcol :> cat) @@ (qcol :> level) @@ ("Count" :> count) @@ ("Percent" :> pct8)
RowMulti(dcol, cat, count, pct8) ==
    (dcol :> cat) @@ ("Count" :> count) @@ ("Percent" :> pct8)

\* The aggregates the stores of the model are drawn from, in file order.
AggregatePool == <<
    [key  |-> Key(YesFilter, "11_Response", "3_Response"),
     rows |-> << Row("3_Response", "Finance", "11_Response", "Increased", 12, 192),
                 Row("3_Response", "Retail", "11_Response", "Increased", 8, 128) >>],
    [key  |-> Key(YesFilter, "15_admin staff", "7_Response_Bucket"),
     rows |-> << RowMulti("7_Response_Bucket", "Medium (50-249)", 3, 98),
                 RowMulti("7_Response_Bucket", "Micro (1-9)", 7, 267) >>],
    [key  |-> Key(YesFilter, "15_Managers", "7_Response_Bucket"),
     rows |-> << RowMulti("7_Response_Bucket", "Small (10-49)", 5, 102),
                 ("7_Response_Bucket" :> "Large (250+)") @@ ("Count" :> 2) >>],
    [key  |-> Key(YesFilter, "11_Response", "7_Response_Bucket"),
     rows |-> << Row("7_Response_Bucket", "Small (10-49)", "11_Response", "Increased", 4, 101),
                 Row("7_Response_Bucket", "Large (250+)", "11_Response", "No change", 9, 99),
                 Row("7_Response_Bucket", "Micro (1-9)", "11_Response", "Increased", 0, 0),
                 RowMulti("7_Response_Bucket", "Medium (50-249)", 1, 50) >>],
    [key  |-> Key(NoFilter, "25_Cost", "3_Response"),
     rows |-> << RowMulti("3_Response", "Retail", 2, 800),
                 RowMulti("3_Response", "Finance", 1, 43),
                 ("Count" :> 3) @@ ("Percent" :> 16) >>],
    [key  |-> Key(NoFilter, "15_Managers", "3_Response"),
     rows |-> << RowMulti("3_Response", "Retail", 6, 100) >>],
    [key  |-> Key(YesFilter, "25_Cost", "2_Response"),
     rows |-> << RowMulti("2_Response", "0-5 years", 1, 4) >>],
    [key  |-> Key(NoFilter, "25_Awareness", "7_Response_Bucket"),
     rows |-> << RowMulti("7_Response_Bucket", "Micro (1-9)", 11, 444) >>] >>

\* A store holds the first MaxKeys entries of the pool, less a run of at most
\* MaxMissing consecutive entries.
MaxKeys == 6
MaxMissing == 1

\* The store holding the pool entries numbered in S: key -> rows.
StoreOf(S) ==
    [k \in { AggregatePool[i].key : i \in S } |->
        AggregatePool[CHOOSE i \in S : AggregatePool[i].key = k].rows]

(***************************************************************************)
(* update_question_dropdown(q8_value, current_value)                       *)
(***************************************************************************)
\* Variant: the catalog is not filtered, Q25 stays visible under every filter.
QuestionsWithQ25 == questions

\* The branch for every filter but "No, never": the catalog without Q25, and the
\* current value when it is one of its values, else the first option's value.
QuestionsWithoutQ25 == SelectSeq(questions, LAMBDA e : ~startswith(e.label, "Q25"))

\* Variant: the current value is never looked at, the first option is always taken.
update_question_dropdown_reset(q8_value, current_value) ==
    IF q8_value = NoFilter
    THEN [options |-> << Q("Q25 - Reasons for non-adoption - multi-select", "25_") >>,
          value   |-> "25_"]
    ELSE [options |-> QuestionsWithoutQ25, value |-> QuestionsWithoutQ25[1].value]

\* Variant: the "No, never" branch is skipped once the value is "25_" already.
update_question_dropdown_guarded(q8_value, current_value) ==
    IF q8_value = NoFilter /\ current_value # "25_"
    THEN [options |-> << Q("Q25 - Reasons for non-adoption - multi-select", "25_") >>,
          value   |-> "25_"]
    ELSE LET opts == QuestionsWithoutQ25
         IN  [options |-> opts,
              value   |-> IF In(current_value, Values(opts))
                          THEN current_value
                          ELSE opts[1].value]

\* Variant: the "No, never" branch keeps a current value that is in the catalog.
update_question_dropdown_keep(q8_value, current_value) ==
    IF q8_value = NoFilter
    THEN [options |-> << Q("Q25 - Reasons for non-adoption - multi-select", "25_") >>,
          value   |-> IF In(current_value, Values(questions))
                      THEN current_value ELSE "25_"]
    ELSE LET opts == QuestionsWithoutQ25
         IN  [options |-> opts,
              value   |-> IF In(current_value, Values(opts))
                          THEN current_value
                          ELSE opts[1].value]

update_question_dropdown(q8_value, current_value) ==
    IF q8_value = NoFilter
    THEN [options |-> << Q("Q25 - Reasons for non-adoption - multi-select", "25_") >>,
          value   |-> "25_"]
    ELSE LET opts == QuestionsWithoutQ25
         IN  [options |-> opts,
              value   |-> IF In(current_value, Values(opts))
                          THEN current_value
                          ELSE opts[1].value]

(***************************************************************************)
(* update_multi_choice_selector(question_col), reading the store           *)
(***************************************************************************)
\* k.split('|')[1]
FieldSegment(k) == split(k, "|")[2]

\* all_keys: the store keys whose field segment starts with question_col.
all_keys(store, question_col) ==
    { k \in DOMAIN store : startswith(FieldSegment(k), question_col) }

\* Variant: sorted(..., reverse=True).
unique_choices_descending(store, question_col) ==
    LET asc == sorted({ FieldSegment(k) : k \in all_keys(store, question_col) })
    IN  [i \in 1..Len(asc) |-> asc[Len(asc) + 1 - i]]

\* unique_choices: the sorted set of those keys' field segments.
unique_choices(store, question_col) ==
    sorted({ FieldSegment(k) : k \in all_keys(store, question_col) })

\* Variant: the default is the first option's label, not its value.
update_multi_choice_selector_label(store, question_col) ==
    IF Truthy(question_col) /\ endswith(question_col, "_")
    THEN LET choices == sorted({ FieldSegment(k) : k \in all_keys(store, question_col) })
             options == [i \in 1..Len(choices) |->
                            Q(RemoveAll(choices[i], question_col), choices[i])]
         IN  [style   |-> "block",
              options |-> options,
              value   |-> IF Len(options) > 0 THEN options[1].label ELSE None]
    ELSE [style |-> "none", options |-> << >>, value |-> None]

update_multi_choice_selector(store, question_col) ==
    IF Truthy(question_col) /\ endswith(question_col, "_")
    THEN LET choices == unique_choices(store, question_col)
             options == [i \in 1..Len(choices) |->
                            Q(RemoveAll(choices[i], question_col), choices[i])]
         IN  [style   |-> "block",
              options |-> options,
              value   |-> IF Len(options) > 0 THEN options[1].value ELSE None]
    ELSE [style |-> "none", options |-> << >>, value |-> None]

(***************************************************************************)
(* update_chart(q8_value, question_col, disagg_col, multi_choice)          *)
(***************************************************************************)
\* question_col.endswith("_") and multi_choice
SubChoiceActive(question_col, multi_choice) ==
    endswith(question_col, "_") /\ Truthy(multi_choice)

\* Variant: the sub-choice is ignored, the key is always built from the question.
ChartKeyQuestionOnly(q8_value, question_col, disagg_col, multi_choice) ==
    q8_value \o "|" \o question_col \o "|" \o disagg_col

\* key: the aggregate key the chart is built from.
ChartKey(q8_value, question_col, disagg_col, multi_choice) ==
    IF SubChoiceActive(question_col, multi_choice)
    THEN q8_value \o "|" \o multi_choice \o "|" \o disagg_col
    ELSE q8_value \o "|" \o question_col \o "|" \o disagg_col

\* Variant: the digits after the first decimal are cut off, not rounded.
FormatF1Truncating(pct8) ==
    LET t == (5 * pct8) \div 4
    IN  ToString(t \div 10) \o "." \o ToString(t % 10)

\* f"{p:.1f}" of a float of pct8 eighths: the nearest tenth, a tie going to the
\* even tenth (the value is exact, so ties are real ties).
FormatF1(pct8) ==
    LET n == 5 * pct8            \* the value in fortieths: tenths are n / 4
        q == n \div 4
        r == n % 4
        t == IF r < 2 THEN q
             ELSE IF r > 2 THEN q + 1
             ELSE IF q % 2 = 0 THEN q ELSE q + 1
    IN  ToString(t \div 10) \o "." \o ToString(t % 10)

\* The cell pandas puts where a row has no value for a column of the frame.
NaN == "<NaN>"

\* pd.DataFrame(rows).columns: every key of every row.
Columns(rows) == UNION { DOMAIN rows[i] : i \in 1..Len(rows) }

\* data[col][i]: the row's value, NaN where the row has none.
Cell(rows, i, col) == IF col \in DOMAIN rows[i] THEN rows[i][col] ELSE NaN

\* f"{r['Percent']:.1f}% ({int(r['Count'])})" on row i of the frame; a NaN formats
\* as "nan".  The Count cell is a number here: int(NaN) raises before any text
\* is made.
SegmentText(rows, i) ==
    (IF "Percent" \in DOMAIN rows[i] THEN FormatF1(rows[i]["Percent"]) ELSE "nan")
        \o "% (" \o ToString(rows[i]["Count"]) \o ")"

\* Variant: the bucket names in sorted (lexical) order.
CategoryOrdersLexical(disagg_col) ==
    IF disagg_col = "7_Response_Bucket"
    THEN << << disagg_col, sorted(Range(bucket_order)) >> >>
    ELSE << >>

\* category_orders: the dict's items, none for None.
CategoryOrders(disagg_col) ==
    IF disagg_col = "7_Response_Bucket"
    THEN << << disagg_col, bucket_order >> >>
    ELSE << >>

\* px.bar(title="No data available for this selection."): a figure without data.
NoDataFigure ==
    [kind |-> "placeholder", title |-> "No data available for this selection.",
     segments |-> << >>, category_orders |-> << >>, xaxis_range |-> << >>]

\* What the callback leaves when it raises (Dash reports the error, no figure is made).
RaisedFigure ==
    [kind |-> "raised", title |-> "", segments |-> << >>,
     category_orders |-> << >>, xaxis_range |-> << >>]

\* The columns the text lambda and px.bar are told to read are columns of the
\* data frame: each is a key of at least one row (of none when there is no row).
HasColumns(rows, cols) == cols \subseteq Columns(rows)

\* int(r['Count']) is computed for every row: a row without Count has NaN there,
\* which int() refuses.
CountIsInt(rows) == \A i \in 1..Len(rows) : "Count" \in DOMAIN rows[i]

\* The bar px.bar draws for row i of the frame.
Segment(rows, i, disagg_col, color_col) ==
    [x     |-> Cell(rows, i, "Percent"),
     y     |-> Cell(rows, i, disagg_col),
     color |-> IF color_col = None THEN None ELSE Cell(rows, i, color_col),
     text  |-> SegmentText(rows, i)]

\* px.bar(color=color_col) groups the frame by the colour column: a row with NaN
\* there belongs to no group and gets no bar.
Coloured(rows, color_col) == { i \in 1..Len(rows) : color_col \in DOMAIN rows[i] }

\* The first row with the colour level of row i: the groups become traces in the
\* order in which their levels first appear in the frame.
LevelStart(rows, color_col, i) ==
    CHOOSE j \in 1..i :
        /\ j \in Coloured(rows, color_col)
        /\ rows[j][color_col] = rows[i][color_col]
        /\ \A k \in 1..(j - 1) :
              k \in Coloured(rows, color_col) => rows[k][color_col] # rows[i][color_col]

\* The rows in the order of their bars: trace after trace, frame order within a trace.
TraceOrder(rows, color_col) ==
    LET drawn == Coloured(rows, color_col)
        Before(j, i) ==
            \/ LevelStart(rows, color_col, j) < LevelStart(rows, color_col, i)
            \/ /\ LevelStart(rows, color_col, j) = LevelStart(rows, color_col, i)
               /\ j < i
    IN  [k \in 1..Cardinality(drawn) |->
            CHOOSE i \in drawn : Cardinality({ j \in drawn : Before(j, i) }) = k - 1]

\* px.bar on the frame: without a colour column one trace with a bar per row, in
\* row order; with one, a trace per colour level.
Segments(rows, disagg_col, color_col) ==
    IF color_col = None
    THEN [i \in 1..Len(rows) |-> Segment(rows, i, disagg_col, None)]
    ELSE LET order == TraceOrder(rows, color_col)
         IN  [k \in 1..Len(order) |-> Segment(rows, order[k], disagg_col, color_col)]

\* Variant: no membership test before aggregates[key], a missing key raises KeyError.
update_chart_unchecked(store, q8_value, question_col, disagg_col, multi_choice) ==
    LET key == ChartKey(q8_value, question_col, disagg_col, multi_choice)
        active == SubChoiceActive(question_col, multi_choice)
        cols == {"Percent", "Count", disagg_col} \cup (IF active THEN {} ELSE {question_col})
    IN  IF question_col = None \/ key \notin DOMAIN store THEN RaisedFigure
        ELSE IF ~HasColumns(store[key], cols) \/ ~CountIsInt(store[key]) THEN RaisedFigure
        ELSE [kind  |-> "bar",
              title |-> IF active
                        THEN RemoveAll(multi_choice, question_col) \o " by " \o disagg_col
                        ELSE question_col \o " by " \o disagg_col
                                \o " (Q8=" \o q8_value \o ")",
              segments |-> Segments(store[key], disagg_col,
                                    IF active THEN None ELSE question_col),
              category_orders |-> CategoryOrders(disagg_col),
              xaxis_range |-> IF active THEN << 0, 100 >> ELSE << >>]

update_chart(store, q8_value, question_col, disagg_col, multi_choice) ==
    LET key == ChartKey(q8_value, question_col, disagg_col, multi_choice)
        active == SubChoiceActive(question_col, multi_choice)
        cols == {"Percent", "Count", disagg_col} \cup (IF active THEN {} ELSE {question_col})
    IN  IF question_col = None THEN RaisedFigure      \* None has no endswith
        ELSE IF key \notin DOMAIN store THEN NoDataFigure
        ELSE IF ~HasColumns(store[key], cols) \/ ~CountIsInt(store[key]) THEN RaisedFigure
        ELSE IF active
        THEN [kind  |-> "bar",
              title |-> RemoveAll(multi_choice, question_col) \o " by " \o disagg_col,
              segments |-> Segments(store[key], disagg_col, None),
              category_orders |-> CategoryOrders(disagg_col),
              xaxis_range |-> << 0, 100 >>]
        ELSE [kind  |-> "bar",
              title |-> question_col \o " by " \o disagg_col
                            \o " (Q8=" \o q8_value \o ")",
              segments |-> Segments(store[key], disagg_col, question_col),
              category_orders |-> CategoryOrders(disagg_col),
              xaxis_range |-> << >>]

(***************************************************************************)
(* The running dashboard                                                   *)
(*                                                                         *)
(* The state is the controls' properties, the figure and the callbacks     *)
(* requested and not yet run.  Dash runs a requested callback only when no *)
(* other requested callback still has to write one of its inputs, which is *)
(* what the Input/Output declarations of the three decorators fix.  The    *)
(* controls stay live meanwhile: a user change may land between any two    *)
(* callbacks, and adds the callbacks reading it to those still requested.  *)
(***************************************************************************)
VARIABLES
    aggregates,            \* the store loaded at start-up, read-only afterwards
    q8_filter,             \* q8_filter.value
    question_options,      \* question_select.options
    question_value,        \* question_select.value
    multi_choice_style,    \* multi_choice_container.style["display"]
    multi_choice_options,  \* multi_choice_select.options
    multi_choice_value,    \* multi_choice_select.value
    disagg_value,          \* disagg_select.value
    figure,                \* bar_chart.figure
    pending,               \* the callbacks requested and not yet run
    trip_question          \* history: the question_select.value of the settled
                           \* dashboard the filter was switched to "No, never"
                           \* from, kept while that switch is resolved before the
                           \* switch back and until the user changes another control

vars == << aggregates, q8_filter, question_options, question_value,
           multi_choice_style, multi_choice_options, multi_choice_value,
           disagg_value, figure, pending, trip_question >>

Callbacks == {"update_question_dropdown", "update_multi_choice_selector", "update_chart"}

\* The Input(...) declarations of each callback.
Inputs(cb) ==
    CASE cb = "update_question_dropdown" -> {"q8_filter.value", "question_select.value"}
      [] cb = "update_multi_choice_selector" -> {"question_select.value"}
      [] cb = "update_chart" -> {"q8_filter.value", "question_select.value",
                                 "disagg_select.value", "multi_choice_select.value"}

\* The Output(...) declarations of each callback.
Outputs(cb) ==
    CASE cb = "update_question_dropdown" -> {"question_select.options", "question_select.value"}
      [] cb = "update_multi_choice_selector" -> {"multi_choice_container.style",
                                                 "multi_choice_select.options",
                                                 "multi_choice_select.value"}
      [] cb = "update_chart" -> {"bar_chart.figure"}

\* The callbacks a change of the properties in props requests; a callback's own
\* output never requests the callback again.
Triggered(props, self) == { c \in Callbacks \ self : Inputs(c) \cap props # {} }

\* A requested callback waits while another requested callback still has to write
\* one of its inputs (an input that is its own output does not count).
Ready(cb) ==
    /\ cb \in pending
    /\ \A other \in pending \ {cb} : (Inputs(cb) \ Outputs(cb)) \cap Outputs(other) = {}

\* No callback is requested: the controls and the chart are what the user sees.
Quiescent == pending = {}

\* The stores the dashboard may have loaded.
Stores ==
    { StoreOf((1..MaxKeys) \ (a..(a + n - 1))) : a \in 1..MaxKeys, n \in 0..MaxMissing }

\* app.layout, and Dash requesting every callback when the page loads.
Init ==
    /\ aggregates \in Stores
    /\ q8_filter = YesFilter
    /\ question_options = << >>
    /\ question_value = None
    /\ multi_choice_style = "none"
    /\ multi_choice_options = << >>
    /\ multi_choice_value = None
    /\ disagg_value = "7_Response_Bucket"
    /\ figure = [kind |-> "unset", title |-> "", segments |-> << >>,
                 category_orders |-> << >>, xaxis_range |-> << >>]
    /\ pending = Callbacks
    /\ trip_question = None

RunUpdateQuestionDropdown ==
    /\ Ready("update_question_dropdown")
    /\ LET out == update_question_dropdown(q8_filter, question_value)
       IN  /\ question_options' = out.options
           /\ question_value' = out.value
    /\ pending' = (pending \ {"update_question_dropdown"})
                      \cup Triggered(Outputs("update_question_dropdown"),
                                     {"update_question_dropdown"})
    /\ UNCHANGED << aggregates, q8_filter, multi_choice_style, multi_choice_options,
                    multi_choice_value, disagg_value, figure, trip_question >>

RunUpdateMultiChoiceSelector ==
    /\ Ready("update_multi_choice_selector")
    /\ LET out == update_multi_choice_selector(aggregates, question_value)
       IN  /\ multi_choice_style' = out.style
           /\ multi_choice_options' = out.options
           /\ multi_choice_value' = out.value
    /\ pending' = (pending \ {"update_multi_choice_selector"})
                      \cup Triggered(Outputs("update_multi_choice_selector"),
                                     {"update_multi_choice_selector"})
    /\ UNCHANGED << aggregates, q8_filter, question_options, question_value,
                    disagg_value, figure, trip_question >>

RunUpdateChart ==
    /\ Ready("update_chart")
    /\ figure' = update_chart(aggregates, q8_filter, question_value, disagg_value,
                              multi_choice_value)
    /\ pending' = (pending \ {"update_chart"})
                      \cup Triggered(Outputs("update_chart"), {"update_chart"})
    /\ UNCHANGED << aggregates, q8_filter, question_options, question_value,
                    multi_choice_style, multi_choice_options, multi_choice_value,
                    disagg_value, trip_question >>

\* The user clicks the other radio item.  The controls stay live while callbacks are
\* requested, so the change may land at any moment; it requests the callbacks that
\* read the property, on top of those still waiting.
UserSetFilter ==
    /\ \E v \in Range(Values(q8_options)) \ {q8_filter} :
          /\ q8_filter' = v
          /\ trip_question' =
                IF v = NoFilter
                THEN (IF Quiescent THEN question_value ELSE None)
                ELSE (IF "update_question_dropdown" \notin pending
                      THEN trip_question ELSE None)
    /\ pending' = pending \cup Triggered({"q8_filter.value"}, {})
    /\ UNCHANGED << aggregates, question_options, question_value, multi_choice_style,
                    multi_choice_options, multi_choice_value, disagg_value, figure >>

\* The user picks another entry of the question dropdown.
UserSelectQuestion ==
    /\ \E v \in Range(Values(question_options)) \ {question_value} :
          question_value' = v
    /\ pending' = pending \cup Triggered({"question_select.value"}, {})
    /\ trip_question' = None
    /\ UNCHANGED << aggregates, q8_filter, question_options, multi_choice_style,
                    multi_choice_options, multi_choice_value, disagg_value, figure >>

\* The user picks another entry of the sub-choice dropdown, when it is shown.
UserSelectMultiChoice ==
    /\ multi_choice_style = "block"
    /\ \E v \in Range(Values(multi_choice_options)) \ {multi_choice_value} :
          multi_choice_value' = v
    /\ pending' = pending \cup Triggered({"multi_choice_select.value"}, {})
    /\ trip_question' = None
    /\ UNCHANGED << aggregates, q8_filter, question_options, question_value,
                    multi_choice_style, multi_choice_options, disagg_value, figure >>

\* The user picks another disaggregation.
UserSelectDisagg ==
    /\ \E v \in Range(Values(disagg_options)) \ {disagg_value} :
          disagg_value' = v
    /\ pending' = pending \cup Triggered({"disagg_select.value"}, {})
    /\ trip_question' = None
    /\ UNCHANGED << aggregates, q8_filter, question_options, question_value,
                    multi_choice_style, multi_choice_options, multi_choice_value,
                    figure >>

Next ==
    \/ RunUpdateQuestionDropdown
    \/ RunUpdateMultiChoiceSelector
    \/ RunUpdateChart
    \/ UserSetFilter
    \/ UserSelectQuestion
    \/ UserSelectMultiChoice
    \/ UserSelectDisagg

Spec == Init /\ [][Next]_vars

(***************************************************************************)
(* Properties                                                              *)
(***************************************************************************)
\* A step in which the named callback runs.
Ran(cb) == cb \in pending /\ cb \notin pending'

\* The question values the claims call visible under filter f, stated from the
\* catalog: Q25 alone under "No, never", every question but Q25 otherwise.
VisibleValues(f) ==
    IF f = NoFilter THEN << "25_" >>
    ELSE Values(SelectSeq(questions, LAMBDA e : SubSeq(e.label, 1, 3) # "Q25"))

\* Position of entry e in the questions catalog.
DeclaredAt(e) == CHOOSE i \in 1..Len(questions) : questions[i] = e

\* C1: whenever update_question_dropdown runs, the resolved question is the
\* previous value if that value is visible under the current filter, and the
\* first visible option otherwise ("25_" under "No, never", "11_Response" under
\* the other filter).
C1_SelectionPreserved ==
    [][ Ran("update_question_dropdown") =>
          /\ question_value' = IF In(question_value, VisibleValues(q8_filter))
                               THEN question_value
                               ELSE VisibleValues(q8_filter)[1]
          /\ VisibleValues(q8_filter)[1] =
                 (IF q8_filter = NoFilter THEN "25_" ELSE "11_Response") ]_vars

\* C1 witness: the resolver has just run on a user-picked question that is not
\* the first entry, and has kept it.
C1_Witness ==
    /\ pending = {"update_multi_choice_selector", "update_chart"}
    /\ q8_filter = YesFilter
    /\ question_value = "18_Staff wellbeing"

\* C2: once update_question_dropdown has run, the visible options are the single
\* Q25 entry when the filter is "No, never", and otherwise exactly the catalog
\* entries whose label does not start with "Q25", in declaration order; "25_" is
\* visible if and only if the filter is "No, never".
C2_FilterDependentCatalog ==
    "update_question_dropdown" \notin pending =>
        /\ In("25_", Values(question_options)) <=> q8_filter = NoFilter
        /\ q8_filter = NoFilter => Values(question_options) = << "25_" >>
        /\ q8_filter # NoFilter =>
              /\ Range(question_options) =
                     { e \in Range(questions) : SubSeq(e.label, 1, 3) # "Q25" }
              /\ \A i \in 1..(Len(question_options) - 1) :
                     DeclaredAt(question_options[i]) < DeclaredAt(question_options[i + 1])

\* C2 witness: the filter is "No, never" and the dropdown shows Q25 alone.
C2_Witness ==
    /\ "update_question_dropdown" \notin pending
    /\ q8_filter = NoFilter
    /\ Len(question_options) = 1

\* What C3 asks of a result r of update_multi_choice_selector for question q.
SubChoiceResultOk(q, r) ==
    LET vals == Values(r.options)
        segs == { FieldSegment(k) : k \in DOMAIN aggregates }
    IN  IF q # None /\ q # "" /\ SubSeq(q, Len(q), Len(q)) = "_"
        THEN /\ r.style = "block"
             /\ Range(vals) = { c \in segs : startswith(c, q) }
             /\ \A i \in 1..(Len(vals) - 1) : StrLess(vals[i], vals[i + 1])
             /\ r.value = (IF Len(vals) = 0 THEN None ELSE vals[1])
             /\ Len(vals) > 0 <=>
                    \E k \in DOMAIN aggregates : startswith(FieldSegment(k), q)
        ELSE r.style = "none" /\ r.options = << >> /\ r.value = None

\* C3: whenever update_multi_choice_selector runs on a question ending in "_",
\* the sub-choice control is shown, its options are the distinct field segments
\* of the store keys with that prefix in strictly ascending order, the resolved
\* sub-choice is the first of them (None when there is none), and the list is
\* non-empty iff some key has the prefix; on any other question, and on an empty
\* or missing one, the control is hidden, without options and without value.
C3_MultiSelectExpansion ==
    [][ Ran("update_multi_choice_selector") =>
          /\ SubChoiceResultOk(question_value,
                 [style |-> multi_choice_style', options |-> multi_choice_options',
                  value |-> multi_choice_value'])
          /\ \A q \in {None, ""} :
                 SubChoiceResultOk(q, update_multi_choice_selector(aggregates, q)) ]_vars

\* C3 witness: the selector has run on Q15 with two sub-choices in the store, one
\* of them under two keys, and offers both, "15_Managers" first.
C3_Witness ==
    /\ "update_multi_choice_selector" \notin pending
    /\ "update_chart" \in pending
    /\ question_value = "15_"
    /\ Values(multi_choice_options) = << "15_Managers", "15_admin staff" >>
    /\ Cardinality(all_keys(aggregates, "15_")) = 3
    /\ multi_choice_value = "15_Managers"

\* One resolution pass: update_question_dropdown, then update_multi_choice_selector
\* on the question it resolved.
ResolvePass(f, q) ==
    LET r == update_question_dropdown(f, q)
        m == update_multi_choice_selector(aggregates, r.value)
    IN  [question_options |-> r.options, question_value |-> r.value,
         style |-> m.style, options |-> m.options, value |-> m.value]

\* C4: whenever update_question_dropdown runs, a second resolution pass fed with
\* the question it resolved (filter unchanged) returns what the first pass
\* returned, and what the callback wrote: the resolved state is a fixed point.
C4_ResolverIdempotent ==
    [][ Ran("update_question_dropdown") =>
          LET first  == ResolvePass(q8_filter, question_value)
              second == ResolvePass(q8_filter, question_value')
          IN  /\ second = first
              /\ second.question_options = question_options'
              /\ second.question_value = question_value' ]_vars

\* C4 witness: a pass has run on an already resolved multi-select question the
\* user picked, and left it in place with its sub-choice control shown.
C4_Witness ==
    /\ pending = {"update_chart"}
    /\ q8_filter = YesFilter
    /\ question_value = "16_"
    /\ multi_choice_style = "block"

\* C5: whenever update_chart is about to run, the question is set and is one of
\* the options visible under the filter, and the sub-choice is None or one of the
\* sub-choice options derived for that question (so it starts with the question
\* value, and is None when the question does not end in "_"); the callback never
\* raises.
C5_RendererGetsValidSelection ==
    /\ figure.kind # "raised"
    /\ Ready("update_chart") =>
          /\ question_value # None
          /\ In(question_value, VisibleValues(q8_filter))
          /\ \/ multi_choice_value = None
             \/ /\ In(multi_choice_value,
                       Values(update_multi_choice_selector(aggregates, question_value).options))
                /\ startswith(multi_choice_value, question_value)
                /\ endswith(question_value, "_")

\* C5 witness: update_chart is about to run on a sub-choice the user picked that
\* is not the default one.
C5_Witness ==
    /\ Ready("update_chart")
    /\ question_value = "15_"
    /\ multi_choice_value = "15_admin staff"

\* The key update_chart builds from the current selection.
CurrentKey == ChartKey(q8_filter, question_value, disagg_value, multi_choice_value)

\* C6: after update_chart has run on a selection whose key is not in the store,
\* the figure is the placeholder: no segments, the literal no-data title, nothing
\* raised; so it is for "No, never|11_Response|7_Response_Bucket".
C6_MissingKeyPlaceholder ==
    /\ (Quiescent /\ CurrentKey \notin DOMAIN aggregates) =>
          /\ figure.kind = "placeholder"
          /\ Len(figure.segments) = 0
          /\ figure.title = "No data available for this selection."
    /\ "No, never|11_Response|7_Response_Bucket" \notin DOMAIN aggregates =>
          LET fig == update_chart(aggregates, "No, never", "11_Response",
                                  "7_Response_Bucket", None)
          IN  /\ fig.kind = "placeholder"
              /\ Len(fig.segments) = 0
              /\ fig.title = "No data available for this selection."

\* C6 witness: the chart has been drawn for an active sub-choice whose key the
\* store lacks under the current filter and disaggregation.
C6_Witness ==
    /\ Quiescent
    /\ CurrentKey = "Yes (currently or at some point in time)|15_Managers|3_Response"
    /\ CurrentKey \notin DOMAIN aggregates
    /\ figure.kind = "placeholder"

\* Two cells hold the same value, be they numbers, texts or NaN.
SameCell(a, b) == ToString(a) = ToString(b)

\* A sub-choice is set for the current question: it ends in "_" and the sub-choice
\* is neither None nor empty.
SubChoiceSet ==
    /\ SubSeq(question_value, Len(question_value), Len(question_value)) = "_"
    /\ multi_choice_value # None /\ multi_choice_value # ""

\* The key the claims expect for the current selection: the filter value, then the
\* sub-choice if one is set, else the question, then the disaggregation.
ExpectedField == IF SubChoiceSet THEN multi_choice_value ELSE question_value

\* A row is a record of the aggregate: it has its category, Count and Percent.
IsRecord(row) == {"Percent", "Count", disagg_value} \subseteq DOMAIN row

\* A record that also has, in a single-select aggregate, the answer level that
\* colours its bar.
IsLevelledRecord(row) ==
    /\ IsRecord(row)
    /\ SubChoiceSet \/ question_value \in DOMAIN row

\* The rows that get a bar: all of them in a sub-choice chart, those with an
\* answer level in a stacked chart.
HasBar(rows) ==
    { i \in 1..Len(rows) : SubChoiceSet \/ question_value \in DOMAIN rows[i] }

\* Segment s shows row i: its Percent, its category and, in a stacked chart, its
\* answer level.
Shows(s, rows, i) ==
    /\ SameCell(s.x, Cell(rows, i, "Percent"))
    /\ SameCell(s.y, Cell(rows, i, disagg_value))
    /\ SubChoiceSet \/ SameCell(s.color, Cell(rows, i, question_value))

\* The ways of taking each segment from a row of its own.
Takings(segs, rows) ==
    { f \in [1..Len(segs) -> 1..Len(rows)] :
        \A k, l \in 1..Len(segs) : f[k] = f[l] => k = l }

\* C7: after update_chart has run, the key it builds from the selection splits at
\* "|" into the filter value, the sub-choice when one is active and the question
\* otherwise, and the disaggregation; the figure is drawn from the rows stored
\* under exactly that key, a bar for each row that gets one and every bar showing
\* a row of that key (a cell the row lacks being NaN), and is the placeholder when
\* the store has no such key.
C7_LookupKey ==
    Quiescent =>
        LET expected == q8_filter \o "|" \o ExpectedField \o "|" \o disagg_value
        IN  /\ split(CurrentKey, "|") = << q8_filter, ExpectedField, disagg_value >>
            /\ IF expected \in DOMAIN aggregates
               THEN /\ figure.kind = "bar"
                    /\ Len(figure.segments) = Cardinality(HasBar(aggregates[expected]))
                    /\ \A k \in 1..Len(figure.segments) :
                          \E i \in HasBar(aggregates[expected]) :
                              Shows(figure.segments[k], aggregates[expected], i)
               ELSE figure.kind = "placeholder"

\* C7 witness: the chart has been drawn from a sub-choice key of the store whose
\* second row has no Percent.
C7_Witness ==
    /\ Quiescent
    /\ question_value = "15_"
    /\ CurrentKey = "Yes (currently or at some point in time)|15_Managers|7_Response_Bucket"
    /\ figure.kind = "bar"
    /\ figure.segments[1].y = "Small (10-49)"
    /\ Len(figure.segments) = 2
    /\ figure.segments[2].x = NaN
    /\ figure.segments[2].text = "nan% (2)"

\* The text "<a>.<b>% (<count>)" for a tenths value t.
LabelOf(t, count) ==
    ToString(t \div 10) \o "." \o ToString(t % 10) \o "% (" \o ToString(count) \o ")"

\* Segment s carries the label of record r: "<percent to one decimal>% (<count>)",
\* the decimal being a tenth nearest to the stored percent.
Labelled(s, r) ==
    \E t \in 0..1000 :
        /\ 8 * t - 10 * r["Percent"] \in -4..4
        /\ s.text = LabelOf(t, r["Count"])

\* The chart shows the rows numbered in records, of the rows under the current
\* key: each segment is taken from exactly one row and no two from the same row;
\* every one of the records has its segment, which carries the record's Percent
\* and category and the label "<percent to one decimal>% (<count>)"; and when
\* all rows are such records there are as many segments as records.
ChartShows(records) ==
    LET rows == aggregates[CurrentKey]
        segs == figure.segments
    IN  /\ figure.kind = "bar"
        /\ \E f \in Takings(segs, rows) :
              /\ \A k \in 1..Len(segs) :
                    /\ Shows(segs[k], rows, f[k])
                    /\ f[k] \in records => Labelled(segs[k], rows[f[k]])
              /\ records \subseteq { f[k] : k \in 1..Len(segs) }
        /\ records = 1..Len(rows) => Len(segs) = Len(rows)
        /\ CurrentKey = "Yes (currently or at some point in time)|11_Response|3_Response" =>
               [i \in 1..Len(segs) |-> segs[i].text] = << "24.0% (12)", "16.0% (8)" >>

C9_BucketOrder ==
    (Quiescent /\ figure.kind = "bar") =>
        IF disagg_value = "7_Response_Bucket"
        THEN figure.category_orders =
                << << "7_Response_Bucket",
                      << "Micro (1-9)", "Small (10-49)", "Medium (50-249)", "Large (250+)" >> >> >>
        ELSE figure.category_orders = << >>

\* C9 witness: a stacked single-select chart by bucket has been drawn from rows
\* stored in the order Small, Large, Micro, which is neither the bucket order nor
\* the lexical one, and its bars come in yet another order.
C9_Witness ==
    /\ Quiescent
    /\ disagg_value = "7_Response_Bucket"
    /\ question_value = "11_Response"
    /\ figure.kind = "bar"
    /\ CurrentKey \in DOMAIN aggregates
    /\ aggregates[CurrentKey][1]["7_Response_Bucket"] = "Small (10-49)"
    /\ aggregates[CurrentKey][2]["7_Response_Bucket"] = "Large (250+)"
    /\ figure.segments[2].y = "Micro (1-9)"
    /\ figure.category_orders # << >>

\* A sub-choice chart with data has been drawn by a disaggregation other than the
\* bucket, with no category order imposed.
SubChoiceChartWithoutOrder ==
    /\ Quiescent
    /\ SubChoiceSet
    /\ disagg_value = "3_Response"
    /\ figure.kind = "bar"
    /\ figure.category_orders = << >>

\* What C10 and its amendment share, for a round trip from a settled dashboard
\* with each switch resolved before the next: under "No, never" the resolved
\* question is "25_" and the sub-choice is None or one of Q25's; after switching
\* back the resolved question is "11_Response", not "25_", with no sub-choice.
RoundTripResolved ==
    /\ ("update_question_dropdown" \notin pending /\ q8_filter = NoFilter) =>
          /\ question_value = "25_"
          /\ "update_multi_choice_selector" \notin pending =>
                multi_choice_value = None \/ startswith(multi_choice_value, "25_")
    /\ ("update_question_dropdown" \notin pending /\ q8_filter = YesFilter
            /\ trip_question # None) =>
          /\ question_value = "11_Response"
          /\ question_value # "25_"
          /\ "update_multi_choice_selector" \notin pending =>
                multi_choice_value = None /\ multi_choice_style = "none"

\* C10 as stated: for every question B selected under the "Yes" filter, after
\* switching to "No, never" the question resolves to "25_", and after switching
\* back it resolves to "11_Response", never to B and never to "25_".
C10_RoundTripAsStated ==
    /\ RoundTripResolved
    /\ ("update_question_dropdown" \notin pending /\ q8_filter = YesFilter
            /\ trip_question # None) =>
          question_value # trip_question

\* C10 amended: as above, but the question resolved after switching back is
\* "11_Response" whatever B was, so it equals B exactly when B is "11_Response";
\* and whatever else the user changed on the way, the resolver run that finds
\* "25_" under the "Yes" filter resolves it to "11_Response", and every run of the
\* sub-choice selector recomputes the sub-choice from the question it finds.
C10_RoundTripAmended ==
    /\ [](/\ RoundTripResolved
          /\ ("update_question_dropdown" \notin pending /\ q8_filter = YesFilter
                  /\ trip_question # None) =>
                (question_value = trip_question <=> trip_question = "11_Response"))
    /\ [][ /\ (Ran("update_question_dropdown") /\ q8_filter = YesFilter
                  /\ question_value = "25_") => question_value' = "11_Response"
           /\ Ran("update_multi_choice_selector") =>
                 \/ multi_choice_value' = None
                 \/ startswith(multi_choice_value', question_value) ]_vars

\* C10 witness: the user had Q15 selected, switched to "No, never" and back, and
\* the dashboard has settled on Q11.
C10_Witness ==
    /\ Quiescent
    /\ q8_filter = YesFilter
    /\ trip_question = "15_"
    /\ question_value = "11_Response"

====
